---- MODULE Spec2Model ----
(***************************************************************************)
(* A model of src/code/student_code.py: the custom convolution operator    *)
(* (CustomConv2DFunction), the PGD attack (PGDAttack.perturb) and the      *)
(* gradient saliency map (GradAttention.explain).                          *)
(*                                                                         *)
(* Tensors are modelled as records [shape, data] with data the row-major   *)
(* (contiguous) flattening of the elements; element values are integers    *)
(* (a fixed-point grid), so every arithmetic identity below is exact.      *)
(***************************************************************************)
EXTENDS Integers, Sequences, FiniteSets, TLC

\* ------------------------------------------------------------------ bounds
MaxSteps == 2       \* num_steps ranges over 0..MaxSteps
MaxEps == 1         \* epsilon ranges over -1..MaxEps
MaxStepSize == 1    \* step_size ranges over -1..MaxStepSize
MaxHW == 3          \* image height and width range over 1..MaxHW
MaxK == 2           \* kernel size K ranges over 1..MaxK
MaxStride == 2      \* stride ranges over 1..MaxStride (and 0 when invalid)
MaxPad == 1         \* padding ranges over 0..MaxPad (and -1 when invalid)
MaxChannels == 3    \* channels of the image handed to explain: 1..MaxChannels
MaxParams == 2      \* the model handed to explain has 1..MaxParams parameters
MaxDepth == 2       \* at most MaxDepth perturb calls are followed on the call stack

\* the attacker SimpleNet.forward builds (line 269), in units of 0.01
ForwardAttackSteps == 5
ForwardAttackStepSize == 1
ForwardAttackEpsilon == 10

\* index set of the (flattened) image handed to perturb
Elems == 1..2
\* values of an input element and of a gradient element
InputVals == {-1, 0, 2}
GradVals == {-3, 0, 2}
\* the models handed to perturb: logits[c] = sum over k of W[c][k] * x[k]
ModelChoices == { << <<1, -1>>, <<-1, 1>>, <<0, 0>> >>,
                  << <<0, 1>>, <<1, 0>> >> }
\* the (N, C_i, C_o) triples: batch size, input and output channel counts
Layouts == {<<1, 1, 1>>, <<1, 2, 1>>, <<2, 1, 2>>, <<2, 2, 2>>}
\* seeds of the generated tensor contents
Seeds == {1, 2}
\* what is wrong with the arguments handed to forward ("none": nothing)
Defects == {"none", "nonsquare", "channels", "stride_zero", "stride_float",
            "padding_negative", "padding_float"}

\* ----------------------------------------------------------- scalar helpers
Min(a, b) == IF a <= b THEN a ELSE b
Max(a, b) == IF a >= b THEN a ELSE b
Abs(a) == IF a >= 0 THEN a ELSE -a

\* torch.sign: -1, 0 or 1
SignNoZero(a) == IF a >= 0 THEN 1 ELSE -1
Sign(a) == IF a > 0 THEN 1 ELSE IF a < 0 THEN -1 ELSE 0

VARIABLES
    pc,               \* position inside PGDAttack.perturb
    training,         \* model.training
    input,            \* the input tensor (flattened)
    inputRequiresGrad,\* input.requires_grad
    output,           \* the local candidate `output` (<<>> before the call)
    savedTraining,    \* the local `training` captured at line 623
    i,                \* loop counter of the for loop
    gradients,        \* the local `gradients` (<<>> before the first one)
    numSteps, stepSize, epsilon,   \* attacker fields
    nForward,         \* number of model(output) evaluations started
    nGrad,            \* number of torch.autograd.grad calls started
    modeAtCall,       \* history: model.training when perturb was called
    returned,         \* the returned tensor (<<>> until perturb returns)
    attack,           \* model.attack (SimpleNet)
    modelW,           \* the model's weights: one row of coefficients per class
    depth,            \* number of perturb calls on the call stack
    stack,            \* the suspended outer perturb frames, innermost first
    logits,           \* the local `logits` (<<>> before the first forward)
    pred,             \* the local `pred`: the label handed to the loss (-1: none)
    forwardModes,     \* history: model.training at each model(output) call
    fedInput,         \* history: the tensor handed to the last model(...) call
    label0,           \* history: the label computed in iteration 0 (-1: none)
    prevOutput,       \* history: the candidate before the last signed step
    unclamped,        \* history: the candidate between lines 644 and 645
    lastClamped,      \* history: the result of the last clamp (line 645)
    cpc,              \* position in the forward/backward pair of the convolution
    x,                \* input_feats, shape (N, C_i, H, W)
    weight,           \* weight, shape (C_o, C_i, K, K) when valid
    bias,             \* bias, shape (C_o), or NoTensor
    stride, padding,  \* [isInt, val]: the stride and padding arguments
    ctx,              \* the autograd context of the forward call
    convOut,          \* what forward returned (NoTensor: nothing)
    needs,            \* ctx.needs_input_grad[0..2]
    gradOutput,       \* grad_output handed to backward
    grads,            \* the 5-tuple backward returned (<<>>: not yet)
    computed,         \* which gradients backward computed
    folded,           \* fold(unfold(x)) (NoTensor: not computed)
    epc,              \* position inside GradAttention.explain
    image,            \* explain's input, shape (N, C, H, W)
    imageRequiresGrad,\* input.requires_grad
    imageGrad,        \* input.grad (NoTensor: None)
    paramsRequireGrad,\* requires_grad of each model parameter
    lossGrad,         \* the gradient of the loss w.r.t. the input of this call
    saliency,         \* what explain returned (NoTensor: nothing yet)
    modeBefore,       \* history: model.training when explain was called
    paramsBefore      \* history: the requires_grad flags when explain was called

pgdVars == <<pc, training, input, inputRequiresGrad, output, savedTraining, i,
             gradients, numSteps, stepSize, epsilon, nForward, nGrad,
             modeAtCall, returned, attack, modelW, depth, stack, logits, pred,
             forwardModes, fedInput, label0, prevOutput, unclamped,
             lastClamped>>

convVars == <<cpc, x, weight, bias, stride, padding, ctx, convOut, needs,
              gradOutput, grads, computed, folded>>

explVars == <<epc, image, imageRequiresGrad, imageGrad, paramsRequireGrad,
              lossGrad, saliency, modeBefore, paramsBefore>>

vars == <<pgdVars, convVars, explVars>>

\* ------------------------------------------------------ PGDAttack.perturb
\* input.clone()
Clone(t) == [k \in DOMAIN t |-> t[k]]

\* model.eval(): the flag becomes False
ModelEval(flag) == FALSE
\* model.train(): the flag becomes True
ModelTrain(flag) == TRUE

\* lines 623-625: if training: model.eval()
EnterModeKeep(flag) == flag
EnterMode(flag) == IF flag THEN ModelEval(flag) ELSE flag

\* lines 648-649: if training: model.train()
RestoreModeSkip(saved, flag) == flag
RestoreMode(saved, flag) == IF saved THEN ModelTrain(flag) ELSE flag

\* line 627: for i in range(self.num_steps)
LoopContinuesInclusive(k, n) == k <= n
LoopContinues(k, n) == k < n

\* line 644: output.detach() - step_size * torch.sign(gradients.detach())
SignStep(out, g, step) == [k \in DOMAIN out |-> out[k] - step * Sign(g[k])]

\* line 645: torch.max(torch.min(output.data, input + eps), input - eps)
ClampBoxUpperOnly(out, inp, eps) ==
    [k \in DOMAIN out |-> Min(out[k], inp[k] + eps)]
ClampBox(out, inp, eps) ==
    [k \in DOMAIN out |-> Max(Min(out[k], inp[k] + eps), inp[k] - eps)]

\* the dot product of the first n entries of a and b
RECURSIVE Dot(_, _, _)
Dot(a, b, n) == IF n = 0 THEN 0 ELSE a[n] * b[n] + Dot(a, b, n - 1)

\* line 635 for SimpleNet (lines 272-276): the logits of the model on xx
ModelLogits(W, xx) == [c \in 1..Len(W) |-> Dot(W[c], xx, Len(xx))]

\* line 268: SimpleNet.forward starts its own attack
ForwardAttacks(flag, att) == flag /\ att

\* line 635: the tensor handed to the model
ForwardArgInput(out, inp) == inp
ForwardArg(out, inp) == out

\* line 637: logits.argmin(dim=1): the first class with the least logit,
\* classes numbered from 0
ArgMin(l) ==
    CHOOSE c \in 0..(Len(l) - 1) :
        /\ \A d \in 0..(Len(l) - 1) : l[c + 1] <= l[d + 1]
        /\ \A d \in 0..(c - 1) : l[d + 1] > l[c + 1]

\* lines 637-638: the label handed to the loss in iteration k
LossLabelFromStep0(l, k, first) == IF k = 0 THEN ArgMin(l) ELSE first
LossLabel(l, k, first) == ArgMin(l)

\* the locals of a perturb call that is suspended in model(output)
Frame ==
    [input |-> input, output |-> output, savedTraining |-> savedTraining,
     i |-> i, gradients |-> gradients, numSteps |-> numSteps,
     stepSize |-> stepSize, epsilon |-> epsilon]

PGDInit ==
    /\ pc = "idle"
    /\ training \in BOOLEAN
    /\ attack \in BOOLEAN
    /\ modelW \in ModelChoices
    /\ input \in [Elems -> InputVals]
    /\ inputRequiresGrad \in BOOLEAN
    /\ output = <<>>
    /\ savedTraining = FALSE
    /\ i = 0
    /\ gradients = <<>>
    /\ numSteps \in 0..MaxSteps
    /\ stepSize \in -1..MaxStepSize
    /\ epsilon \in -1..MaxEps
    /\ nForward = 0
    /\ nGrad = 0
    /\ modeAtCall = training
    /\ returned = <<>>
    /\ depth = 0
    /\ stack = <<>>
    /\ logits = <<>>
    /\ pred = -1
    /\ forwardModes = {}
    /\ fedInput = <<>>
    /\ label0 = -1
    /\ prevOutput = <<>>
    /\ unclamped = <<>>
    /\ lastClamped = <<>>

\* lines 619-625: clone, input.requires_grad = False, save the mode, eval()
PerturbEnter ==
    /\ pc = "idle"
    /\ output' = Clone(input)
    /\ inputRequiresGrad' = FALSE
    /\ savedTraining' = training
    /\ training' = EnterMode(training)
    /\ i' = 0
    /\ depth' = depth + 1
    /\ pc' = "loop"
    /\ UNCHANGED <<convVars, explVars, input, gradients, numSteps, stepSize, epsilon, nForward,
                   nGrad, modeAtCall, returned, attack, modelW, stack, logits,
                   pred, forwardModes, fedInput, label0, prevOutput, unclamped,
                   lastClamped>>

\* lines 627-635 and 266-277: the loop continues; logits = model(output).
\* SimpleNet.forward first attacks its own input when it is in training mode
\* with attack set (lines 268-270): the running perturb is suspended and a
\* nested perturb of the candidate starts; otherwise the logits come back.
IterForward ==
    /\ pc = "loop"
    /\ LoopContinues(i, numSteps)
    /\ nForward' = nForward + 1
    /\ forwardModes' = forwardModes \cup {training}
    /\ fedInput' = ForwardArg(output, input)
    /\ IF ForwardAttacks(training, attack)
       THEN /\ depth < MaxDepth
            /\ stack' = <<Frame>> \o stack
            /\ input' = fedInput'
            /\ numSteps' = ForwardAttackSteps
            /\ stepSize' = ForwardAttackStepSize
            /\ epsilon' = ForwardAttackEpsilon
            /\ pc' = "idle"
            /\ UNCHANGED logits
       ELSE /\ logits' = ModelLogits(modelW, fedInput')
            /\ pc' = "loss"
            /\ UNCHANGED <<stack, input, numSteps, stepSize, epsilon>>
    /\ UNCHANGED <<convVars, explVars, training, inputRequiresGrad, output, savedTraining,
                   i, gradients, nGrad, modeAtCall, returned, attack, modelW,
                   depth, pred, label0, prevOutput, unclamped, lastClamped>>

\* line 635: model(output) raises; the exception leaves perturb
IterForwardFails ==
    /\ pc = "loop"
    /\ LoopContinues(i, numSteps)
    /\ nForward' = nForward + 1
    /\ forwardModes' = forwardModes \cup {training}
    /\ fedInput' = ForwardArg(output, input)
    /\ pc' = "failed"
    /\ UNCHANGED <<convVars, explVars, training, input, inputRequiresGrad, output, savedTraining,
                   i, gradients, numSteps, stepSize, epsilon, nGrad,
                   modeAtCall, returned, attack, modelW, depth, stack, logits,
                   pred, label0, prevOutput, unclamped, lastClamped>>

\* lines 637-638: pred = logits.argmin(dim=1); loss = loss_fn(logits, pred)
IterLoss ==
    /\ pc = "loss"
    /\ pred' = LossLabel(logits, i, label0)
    /\ label0' = IF i = 0 THEN pred' ELSE label0
    /\ pc' = "grad"
    /\ UNCHANGED <<convVars, explVars, training, input, inputRequiresGrad, output, savedTraining,
                   i, gradients, numSteps, stepSize, epsilon, nForward, nGrad,
                   modeAtCall, returned, attack, modelW, depth, stack, logits,
                   forwardModes, fedInput, prevOutput, unclamped, lastClamped>>

\* line 638: loss_fn raises
IterLossFails ==
    /\ pc = "loss"
    /\ pred' = LossLabel(logits, i, label0)
    /\ label0' = IF i = 0 THEN pred' ELSE label0
    /\ pc' = "failed"
    /\ UNCHANGED <<convVars, explVars, training, input, inputRequiresGrad, output, savedTraining,
                   i, gradients, numSteps, stepSize, epsilon, nForward, nGrad,
                   modeAtCall, returned, attack, modelW, depth, stack, logits,
                   forwardModes, fedInput, prevOutput, unclamped, lastClamped>>

\* line 641: gradients = torch.autograd.grad(loss, [output])[0]
IterGrad ==
    /\ pc = "grad"
    /\ \E g \in [Elems -> GradVals] : gradients' = g
    /\ nGrad' = nGrad + 1
    /\ pc' = "step"
    /\ UNCHANGED <<convVars, explVars, training, input, inputRequiresGrad, output, savedTraining,
                   i, numSteps, stepSize, epsilon, nForward, modeAtCall,
                   returned, attack, modelW, depth, stack, logits, pred,
                   forwardModes, fedInput, label0, prevOutput, unclamped,
                   lastClamped>>

\* line 641: torch.autograd.grad raises
IterGradFails ==
    /\ pc = "grad"
    /\ nGrad' = nGrad + 1
    /\ pc' = "failed"
    /\ UNCHANGED <<convVars, explVars, training, input, inputRequiresGrad, output, savedTraining,
                   i, gradients, numSteps, stepSize, epsilon, nForward,
                   modeAtCall, returned, attack, modelW, depth, stack, logits,
                   pred, forwardModes, fedInput, label0, prevOutput, unclamped,
                   lastClamped>>

\* lines 644-645: signed step, then the clamp; the iteration ends
IterStep ==
    /\ pc = "step"
    /\ prevOutput' = output
    /\ unclamped' = SignStep(output, gradients, stepSize)
    /\ output' = ClampBox(unclamped', input, epsilon)
    /\ lastClamped' = output'
    /\ i' = i + 1
    /\ pc' = "loop"
    /\ UNCHANGED <<convVars, explVars, training, input, inputRequiresGrad, savedTraining,
                   gradients, numSteps, stepSize, epsilon, nForward, nGrad,
                   modeAtCall, returned, attack, modelW, depth, stack, logits,
                   pred, forwardModes, fedInput, label0>>

\* lines 647-651: the loop is over; restore the mode and return output. A
\* nested perturb returns into SimpleNet.forward (lines 270-277), which
\* computes the logits of the perturbed tensor for the suspended perturb.
PerturbExit ==
    /\ pc = "loop"
    /\ ~LoopContinues(i, numSteps)
    /\ training' = RestoreMode(savedTraining, training)
    /\ depth' = depth - 1
    /\ IF stack = <<>>
       THEN /\ returned' = output
            /\ pc' = "done"
            /\ UNCHANGED <<input, output, savedTraining, i, gradients, numSteps,
                           stepSize, epsilon, stack, logits>>
       ELSE /\ input' = Head(stack).input
            /\ output' = Head(stack).output
            /\ savedTraining' = Head(stack).savedTraining
            /\ i' = Head(stack).i
            /\ gradients' = Head(stack).gradients
            /\ numSteps' = Head(stack).numSteps
            /\ stepSize' = Head(stack).stepSize
            /\ epsilon' = Head(stack).epsilon
            /\ stack' = Tail(stack)
            /\ logits' = ModelLogits(modelW, output)
            /\ pc' = "loss"
            /\ UNCHANGED returned
    /\ UNCHANGED <<convVars, explVars, inputRequiresGrad, nForward, nGrad,
                   modeAtCall, attack, modelW, pred, forwardModes, fedInput,
                   label0, prevOutput, unclamped, lastClamped>>

PGDNext ==
    \/ PerturbEnter
    \/ IterForward
    \/ IterForwardFails
    \/ IterLoss
    \/ IterLossFails
    \/ IterGrad
    \/ IterGradFails
    \/ IterStep
    \/ PerturbExit


\* ------------------------------------------------------------ tensor model
\* A tensor is [shape |-> <<d1, ..., dk>>, data |-> row-major elements].
\* Python's None (an absent tensor) is NoTensor.
NoTensor == [shape |-> <<>>, data |-> <<>>]

RECURSIVE Prod(_)
Prod(dims) == IF dims = <<>> THEN 1 ELSE Head(dims) * Prod(Tail(dims))

RECURSIVE SumF(_, _)
\* f[0] + ... + f[n-1]
SumF(f, n) == IF n = 0 THEN 0 ELSE f[n - 1] + SumF(f, n - 1)

Tensor(dims, f(_)) == [shape |-> dims, data |-> [k \in 1..Prod(dims) |-> f(k - 1)]]

\* element of a contiguous tensor at a 0-based flat offset
At(t, off) == t.data[off + 1]

\* tensor.view(dims), where at most one entry of dims is -1 and is inferred
\* from the number of elements; a view that does not fit raises (NoTensor)
View(t, dims) ==
    LET known == Prod([k \in DOMAIN dims |-> IF dims[k] = -1 THEN 1 ELSE dims[k]])
        n == Len(t.data)
        hasFree == \E k \in DOMAIN dims : dims[k] = -1
    IN  IF hasFree
        THEN IF known > 0 /\ n % known = 0
             THEN [shape |-> [k \in DOMAIN dims |-> IF dims[k] = -1 THEN n \div known
                                                                  ELSE dims[k]],
                   data |-> t.data]
             ELSE NoTensor
        ELSE IF known = n THEN [shape |-> dims, data |-> t.data] ELSE NoTensor

\* a @ b for a of shape (P, Q) (broadcast over the batch) or (N, P, Q) and
\* b of shape (N, Q, S): the result has shape (N, P, S)
MatMul(a, b) ==
    LET batched == Len(a.shape) = 3
        P == IF batched THEN a.shape[2] ELSE a.shape[1]
        Q == b.shape[2]
        S == b.shape[3]
        N == b.shape[1]
        elem(off) ==
            LET n == off \div (P * S)
                r == (off % (P * S)) \div S
                c == off % S
                abase == IF batched THEN n * P * Q ELSE 0
            IN  SumF([q \in 0..(Q - 1) |->
                        At(a, abase + r * Q + q) * At(b, (n * Q + q) * S + c)], Q)
    IN  Tensor(<<N, P, S>>, elem)

\* matrix.T of a 2-D tensor
Transpose2D(a) ==
    LET P == a.shape[1]
        Q == a.shape[2]
    IN  Tensor(<<Q, P>>, LAMBDA off : At(a, (off % P) * Q + (off \div P)))

\* torch.transpose(t, 1, 2) of a 3-D tensor, made contiguous
Transpose12(t) ==
    LET N == t.shape[1]
        P == t.shape[2]
        Q == t.shape[3]
    IN  Tensor(<<N, Q, P>>,
               LAMBDA off : LET n == off \div (P * Q)
                                q == (off % (P * Q)) \div P
                                r == off % P
                            IN  At(t, (n * P + r) * Q + q))

\* torch.sum(t, dim=0) of a 3-D tensor
SumDim0(t) ==
    LET N == t.shape[1]
        M == t.shape[2] * t.shape[3]
    IN  Tensor(<<t.shape[2], t.shape[3]>>,
               LAMBDA off : SumF([n \in 0..(N - 1) |-> At(t, n * M + off)], N))

\* t.sum((0, 2, 3)) of a 4-D tensor: one value per channel
SumDims023(t) ==
    LET N == t.shape[1]
        C == t.shape[2]
        M == t.shape[3] * t.shape[4]
    IN  Tensor(<<C>>,
               LAMBDA c : SumF([j \in 0..(N * M - 1) |->
                                   At(t, ((j \div M) * C + c) * M + (j % M))], N * M))

\* out += bias.view(-1, 1): bias broadcast over the batch and the columns
AddBiasSkip(out, b) == out
AddBias(out, b) ==
    LET C == out.shape[2]
        L == out.shape[3]
    IN  Tensor(out.shape, LAMBDA off : At(out, off) + At(b, (off \div L) % C))

\* ---------------------------------------- torch.nn.functional.unfold / fold
\* number of sliding-window positions along one axis
WindowCount(size, K, p, s) == ((size + 2 * p - K) \div s) + 1

\* unfold(x, K, padding=p, stride=s): (N, C, H, W) -> (N, C*K*K, L); column l
\* (row-major over the output grid) holds the receptive field at that
\* position, channel-major then kernel row-major; reads outside the image
\* are zero.
Unfold(xx, K, p, s) ==
    LET N == xx.shape[1]
        C == xx.shape[2]
        H == xx.shape[3]
        W == xx.shape[4]
        Ho == WindowCount(H, K, p, s)
        Wo == WindowCount(W, K, p, s)
        L == Ho * Wo
        R == C * K * K
        elem(off) ==
            LET n == off \div (R * L)
                r == (off % (R * L)) \div L
                l == off % L
                c == r \div (K * K)
                u == (r % (K * K)) \div K
                v == r % K
                h == (l \div Wo) * s + u - p
                w == (l % Wo) * s + v - p
            IN  IF h >= 0 /\ h < H /\ w >= 0 /\ w < W
                THEN At(xx, ((n * C + c) * H + h) * W + w)
                ELSE 0
    IN  Tensor(<<N, R, L>>, elem)

\* fold(cols, (H, W), K, padding=p, stride=s): (N, C*K*K, L) -> (N, C, H, W);
\* every entry of cols is added to the image position it would have been
\* extracted from (entries that fall in the padding are dropped).
FoldOverwriting(cols, H, W, K, p, s) ==
    LET N == cols.shape[1]
        R == cols.shape[2]
        L == cols.shape[3]
        C == R \div (K * K)
        Ho == WindowCount(H, K, p, s)
        Wo == WindowCount(W, K, p, s)
        elem(off) ==
            LET n == off \div (C * H * W)
                c == (off % (C * H * W)) \div (H * W)
                h == (off % (H * W)) \div W
                w == off % W
                hits == {j \in 0..(K * K - 1) :
                            LET a == h + p - (j \div K)
                                b == w + p - (j % K)
                            IN  /\ a >= 0 /\ a % s = 0 /\ a \div s < Ho
                                /\ b >= 0 /\ b % s = 0 /\ b \div s < Wo}
                last == CHOOSE j \in hits : \A k \in hits : k <= j
            IN  IF hits = {} THEN 0
                ELSE At(cols, (n * R + c * K * K + last) * L
                              + ((h + p - (last \div K)) \div s) * Wo
                              + ((w + p - (last % K)) \div s))
    IN  Tensor(<<N, C, H, W>>, elem)
Fold(cols, H, W, K, p, s) ==
    LET N == cols.shape[1]
        R == cols.shape[2]
        L == cols.shape[3]
        C == R \div (K * K)
        Ho == WindowCount(H, K, p, s)
        Wo == WindowCount(W, K, p, s)
        elem(off) ==
            LET n == off \div (C * H * W)
                c == (off % (C * H * W)) \div (H * W)
                h == (off % (H * W)) \div W
                w == off % W
                term(j) ==
                    LET u == j \div K
                        v == j % K
                        a == h + p - u
                        b == w + p - v
                    IN  IF /\ a >= 0 /\ a % s = 0 /\ a \div s < Ho
                           /\ b >= 0 /\ b % s = 0 /\ b \div s < Wo
                        THEN At(cols, (n * R + c * K * K + u * K + v) * L
                                      + (a \div s) * Wo + (b \div s))
                        ELSE 0
            IN  SumF([j \in 0..(K * K - 1) |-> term(j)], K * K)
    IN  IF R % (K * K) = 0 /\ L = Ho * Wo
        THEN Tensor(<<N, C, H, W>>, elem)
        ELSE NoTensor

\* --------------------------------------------------- CustomConv2DFunction
\* contents of a generated tensor: values in -3..3
Gen(seed, off) == ((seed * (off + 1) * (off + 3) + off) % 7) - 3
GenTensor(dims, seed) == Tensor(dims, LAMBDA off : Gen(seed, off))

EmptyCtx == [stride |-> <<>>, padding |-> <<>>, input_height |-> <<>>,
             input_width |-> <<>>, saved |-> <<>>]

\* lines 43-46: the sanity asserts
SanityOk(xx, w, s, p) ==
    /\ w.shape[3] = w.shape[4]
    /\ xx.shape[2] = w.shape[2]
    /\ s.isInt /\ s.val > 0
    /\ p.isInt /\ p.val >= 0

\* lines 56-57: the kernel fits the padded input
FitsOkHeightOnly(xx, w, p) == w.shape[3] <= xx.shape[3] + 2 * p.val
FitsOk(xx, w, p) ==
    /\ w.shape[3] <= xx.shape[3] + 2 * p.val
    /\ w.shape[3] <= xx.shape[4] + 2 * p.val

\* lines 50-53: the conv params saved on ctx
CtxParams(c, xx, s, p) ==
    [c EXCEPT !.stride = <<s>>, !.padding = <<p>>,
              !.input_height = <<xx.shape[3]>>, !.input_width = <<xx.shape[4]>>]

\* line 83: H_o = (H + 2 * padding - kernel_size) // stride + 1
ConvHoFromWidth(xx, K, p, s) == (xx.shape[4] + 2 * p - K) \div s + 1
ConvHo(xx, K, p, s) == (xx.shape[3] + 2 * p - K) \div s + 1

\* line 71: weight.view(C_o, -1)
WeightUnfolded(w) == View(w, <<w.shape[1], -1>>)

\* lines 64-85: the output of forward (NoTensor when the final view raises)
ForwardOutput(xx, w, b, s, p) ==
    LET N == xx.shape[1]
        C_o == w.shape[1]
        kernel_size == w.shape[3]
        input_unfolded == Unfold(xx, kernel_size, p, s)
        product == MatMul(WeightUnfolded(w), input_unfolded)
        output_unfolded == IF b # NoTensor THEN AddBias(product, b) ELSE product
        H_o == ConvHo(xx, kernel_size, p, s)
    IN  View(output_unfolded, <<N, C_o, H_o, -1>>)

\* line 89: ctx.save_for_backward(input_unfolded, weight, bias)
SavedTensors(xx, w, b, s, p) == <<Unfold(xx, w.shape[3], p, s), w, b>>

\* lines 128, 137, 147: which gradients backward computes
InputGradWanted(nd) == nd[1]
WeightGradWanted(nd) == nd[2]
BiasGradWantedIgnoringBias(b, nd) == nd[3]
BiasGradWanted(b, nd) == b # NoTensor /\ nd[3]

\* lines 125-134: grad_input
GradInputSwappedSize(c, g) ==
    LET w == c.saved[2]
        grad_output_unfolded == View(g, <<g.shape[1], g.shape[2], -1>>)
        grad_input_unfolded == MatMul(Transpose2D(WeightUnfolded(w)), grad_output_unfolded)
    IN  Fold(grad_input_unfolded, c.input_width[1], c.input_height[1],
             w.shape[3], c.padding[1].val, c.stride[1].val)
GradInput(c, g) ==
    LET w == c.saved[2]
        grad_output_unfolded == View(g, <<g.shape[1], g.shape[2], -1>>)
        grad_input_unfolded == MatMul(Transpose2D(WeightUnfolded(w)), grad_output_unfolded)
    IN  Fold(grad_input_unfolded, c.input_height[1], c.input_width[1],
             w.shape[3], c.padding[1].val, c.stride[1].val)

\* lines 125, 141-145: grad_weight
GradWeight(c, g) ==
    LET w == c.saved[2]
        grad_output_unfolded == View(g, <<g.shape[1], g.shape[2], -1>>)
        input_transpose == Transpose12(c.saved[1])
        grad_weight_unfolded == SumDim0(MatMul(grad_output_unfolded, input_transpose))
    IN  View(grad_weight_unfolded, <<w.shape[1], -1, w.shape[3], w.shape[3]>>)

\* line 149: grad_bias
GradBias(g) == SumDims023(g)

\* lines 109-151: the tuple backward returns
BackwardGrads(c, nd, g) ==
    << IF InputGradWanted(nd) THEN GradInput(c, g) ELSE NoTensor,
       IF WeightGradWanted(nd) THEN GradWeight(c, g) ELSE NoTensor,
       IF BiasGradWanted(c.saved[3], nd) THEN GradBias(g) ELSE NoTensor,
       NoTensor,
       NoTensor >>

BackwardComputed(c, nd) ==
    {k \in {"input"} : InputGradWanted(nd)}
        \cup {k \in {"weight"} : WeightGradWanted(nd)}
        \cup {k \in {"bias"} : BiasGradWanted(c.saved[3], nd)}

ConvInit ==
    /\ cpc = "init"
    /\ \E lay \in Layouts, H \in 1..MaxHW,
          W \in 1..MaxHW, K \in 1..MaxK, s \in 1..MaxStride, p \in 0..MaxPad,
          hasBias \in BOOLEAN, seed \in Seeds, defect \in Defects :
          LET N == lay[1]
              Ci == lay[2]
              Co == lay[3]
          IN
          \* defective argument lists are drawn with one seed, with a bias
          /\ defect # "none" => (hasBias /\ seed = 1)
          /\ x = GenTensor(<<N, Ci, H, W>>, seed)
          /\ weight = GenTensor(<<Co, IF defect = "channels" THEN Ci + 1 ELSE Ci, K,
                                  IF defect = "nonsquare" THEN K + 1 ELSE K>>, seed + 1)
          /\ bias = IF hasBias THEN GenTensor(<<Co>>, seed + 2) ELSE NoTensor
          /\ stride = [isInt |-> defect # "stride_float",
                       val |-> IF defect = "stride_zero" THEN 0 ELSE s]
          /\ padding = [isInt |-> defect # "padding_float",
                        val |-> IF defect = "padding_negative" THEN -1 ELSE p]
    /\ ctx = EmptyCtx
    /\ convOut = NoTensor
    /\ needs = <<>>
    /\ gradOutput = NoTensor
    /\ grads = <<>>
    /\ computed = {}
    /\ folded = NoTensor

\* what the PGD variables hold while the convolution is exercised
PerturbIdle ==
    /\ pc = "unused"
    /\ input = <<>>
    /\ inputRequiresGrad = FALSE
    /\ output = <<>>
    /\ savedTraining = FALSE
    /\ i = 0
    /\ gradients = <<>>
    /\ numSteps = 0
    /\ stepSize = 0
    /\ epsilon = 0
    /\ nForward = 0
    /\ nGrad = 0
    /\ modeAtCall = FALSE
    /\ returned = <<>>
    /\ attack = FALSE
    /\ modelW = <<>>
    /\ depth = 0
    /\ stack = <<>>
    /\ logits = <<>>
    /\ pred = -1
    /\ forwardModes = {}
    /\ fedInput = <<>>
    /\ label0 = -1
    /\ prevOutput = <<>>
    /\ unclamped = <<>>
    /\ lastClamped = <<>>

PGDIdle == PerturbIdle /\ training = FALSE

\* what the convolution variables hold while perturb is exercised
ConvIdle ==
    /\ cpc = "unused"
    /\ x = NoTensor
    /\ weight = NoTensor
    /\ bias = NoTensor
    /\ stride = [isInt |-> TRUE, val |-> 1]
    /\ padding = [isInt |-> TRUE, val |-> 0]
    /\ ctx = EmptyCtx
    /\ convOut = NoTensor
    /\ needs = <<>>
    /\ gradOutput = NoTensor
    /\ grads = <<>>
    /\ computed = {}
    /\ folded = NoTensor

\* lines 43-46: an assert of the sanity check fails; nothing was stored
ForwardSanityFails ==
    /\ cpc = "init"
    /\ ~SanityOk(x, weight, stride, padding)
    /\ cpc' = "failed"
    /\ UNCHANGED <<x, weight, bias, stride, padding, ctx, convOut, needs,
                   gradOutput, grads, computed, folded, pgdVars, explVars>>

\* lines 43-57: the conv params are on ctx, then a kernel-fit assert fails
ForwardFitFails ==
    /\ cpc = "init"
    /\ SanityOk(x, weight, stride, padding)
    /\ ~FitsOk(x, weight, padding)
    /\ ctx' = CtxParams(ctx, x, stride, padding)
    /\ cpc' = "failed"
    /\ UNCHANGED <<x, weight, bias, stride, padding, convOut, needs,
                   gradOutput, grads, computed, folded, pgdVars, explVars>>

\* lines 43-91: forward on arguments that pass every assert
ForwardOk ==
    /\ cpc = "init"
    /\ SanityOk(x, weight, stride, padding)
    /\ FitsOk(x, weight, padding)
    /\ LET out == ForwardOutput(x, weight, bias, stride.val, padding.val)
       IN  IF out = NoTensor
           THEN /\ ctx' = CtxParams(ctx, x, stride, padding)
                /\ convOut' = NoTensor
                /\ cpc' = "failed"
           ELSE /\ ctx' = [CtxParams(ctx, x, stride, padding) EXCEPT
                              !.saved = SavedTensors(x, weight, bias, stride.val,
                                                     padding.val)]
                /\ convOut' = out
                /\ cpc' = "forwarded"
    /\ UNCHANGED <<x, weight, bias, stride, padding, needs, gradOutput, grads,
                   computed, folded, pgdVars, explVars>>

\* lines 94-151: backward, for the flags and the grad_output autograd hands it
Backward ==
    /\ cpc = "forwarded"
    /\ \E nd \in [1..3 -> BOOLEAN] :
          LET g == GenTensor(convOut.shape, 4)
          IN  /\ needs' = nd
              /\ gradOutput' = g
              /\ grads' = BackwardGrads(ctx, nd, g)
              /\ computed' = BackwardComputed(ctx, nd)
    /\ cpc' = "backwarded"
    /\ UNCHANGED <<x, weight, bias, stride, padding, ctx, convOut, folded,
                   pgdVars, explVars>>

\* the grad_output of output.sum().backward(): all ones
OnesTensor(dims) == Tensor(dims, LAMBDA off : 1)

\* lines 94-151: backward as output.sum().backward() runs it, with every
\* tensor argument of forward requiring a gradient
BackwardOfSum ==
    /\ cpc = "forwarded"
    /\ LET g == OnesTensor(convOut.shape)
           nd == <<TRUE, TRUE, bias # NoTensor>>
       IN  /\ needs' = nd
           /\ gradOutput' = g
           /\ grads' = BackwardGrads(ctx, nd, g)
           /\ computed' = BackwardComputed(ctx, nd)
    /\ cpc' = "backwarded"
    /\ UNCHANGED <<x, weight, bias, stride, padding, ctx, convOut, folded,
                   pgdVars, explVars>>

\* lines 70 and 134: patch accumulation applied to patch extraction of x
FoldOfUnfold ==
    /\ cpc = "init"
    /\ SanityOk(x, weight, stride, padding)
    /\ FitsOk(x, weight, padding)
    /\ folded' = Fold(Unfold(x, weight.shape[3], padding.val, stride.val),
                      x.shape[3], x.shape[4], weight.shape[3], padding.val,
                      stride.val)
    /\ cpc' = "folded"
    /\ UNCHANGED <<x, weight, bias, stride, padding, ctx, convOut, needs,
                   gradOutput, grads, computed, pgdVars, explVars>>

ConvNext ==
    \/ ForwardSanityFails
    \/ ForwardFitFails
    \/ ForwardOk
    \/ Backward
    \/ BackwardOfSum
    \/ FoldOfUnfold

\* --------------------------------------------------- GradAttention.explain
\* what explain's variables hold while it is not exercised
ExplainIdle ==
    /\ epc = "unused"
    /\ image = NoTensor
    /\ imageRequiresGrad = FALSE
    /\ imageGrad = NoTensor
    /\ paramsRequireGrad = <<>>
    /\ lossGrad = NoTensor
    /\ saliency = NoTensor
    /\ modeBefore = FALSE
    /\ paramsBefore = <<>>

RECURSIVE MaxF(_, _)
\* the largest of f[0], ..., f[n-1], n >= 1
MaxF(f, n) == IF n = 1 THEN f[0] ELSE Max(f[n - 1], MaxF(f, n - 1))

\* line 685: input.grad.zero_()
ZeroGradSkip(t) == t
ZeroGrad(t) == Tensor(t.shape, LAMBDA off : 0)

\* lines 684-685: if input.grad is not None: input.grad.zero_()
ClearedGrad(g) == IF g # NoTensor THEN ZeroGrad(g) ELSE g

\* line 698: loss.backward() accumulates the gradient into input.grad
AccumulateGrad(old, g) ==
    IF old = NoTensor THEN g
    ELSE Tensor(g.shape, LAMBDA off : At(old, off) + At(g, off))

\* lines 687-688: every parameter's requires_grad becomes False
FreezeParamsSkip(flags) == flags
FreezeParams(flags) == [k \in DOMAIN flags |-> FALSE]

\* line 700: input.grad.data.abs()
AbsTSkip(t) == t
AbsT(t) == Tensor(t.shape, LAMBDA off : Abs(At(t, off)))

\* line 703: grads.max(1): the values, reduced over the channel axis
MaxDim1(t) ==
    LET N == t.shape[1]
        C == t.shape[2]
        M == t.shape[3] * t.shape[4]
    IN  Tensor(<<N, t.shape[3], t.shape[4]>>,
               LAMBDA off : MaxF([c \in 0..(C - 1) |->
                                    At(t, ((off \div M) * C + c) * M + (off % M))], C))

\* line 704: saliency.unsqueeze(1)
Unsqueeze1(t) ==
    [shape |-> <<t.shape[1], 1>> \o SubSeq(t.shape, 2, Len(t.shape)), data |-> t.data]

\* lines 700-705
Saliency(g) == Unsqueeze1(MaxDim1(AbsT(g)))

ExplainInit ==
    /\ epc = "idle"
    /\ training \in BOOLEAN
    /\ \E N \in 1..2, C \in 1..MaxChannels, H \in 1..MaxHW, W \in 1..MaxHW,
          seed \in Seeds :
          /\ image = GenTensor(<<N, C, H, W>>, seed)
          /\ imageGrad \in {NoTensor, GenTensor(<<N, C, H, W>>, seed + 1)}
    /\ imageRequiresGrad \in BOOLEAN
    /\ \E n \in 1..MaxParams : paramsRequireGrad \in [1..n -> BOOLEAN]
    /\ lossGrad = NoTensor
    /\ saliency = NoTensor
    /\ modeBefore = training
    /\ paramsBefore = paramsRequireGrad

\* lines 682-690: requires_grad, clear input.grad, freeze, model.eval()
ExplainEnter ==
    /\ epc = "idle"
    /\ imageRequiresGrad' = TRUE
    /\ imageGrad' = ClearedGrad(imageGrad)
    /\ paramsRequireGrad' = FreezeParams(paramsRequireGrad)
    /\ training' = ModelEval(training)
    /\ epc' = "forward"
    /\ UNCHANGED <<image, lossGrad, saliency, modeBefore, paramsBefore>>
    /\ UNCHANGED <<pc, input, inputRequiresGrad, output, savedTraining, i,
                   gradients, numSteps, stepSize, epsilon, nForward, nGrad,
                   modeAtCall, returned, attack, modelW, depth, stack, logits,
                   pred, forwardModes, fedInput, label0, prevOutput, unclamped,
                   lastClamped, convVars>>

\* lines 693-698: forward, arg-max label, loss, loss.backward()
ExplainBackward ==
    /\ epc = "forward"
    /\ \E seed \in Seeds :
          LET g == GenTensor(image.shape, seed + 4)
          IN  /\ lossGrad' = g
              /\ imageGrad' = AccumulateGrad(imageGrad, g)
    /\ epc' = "reduce"
    /\ UNCHANGED <<image, imageRequiresGrad, paramsRequireGrad, saliency,
                   modeBefore, paramsBefore, pgdVars, convVars>>

\* lines 700-705: abs, max over the channels, unsqueeze, return
ExplainReturn ==
    /\ epc = "reduce"
    /\ saliency' = Saliency(imageGrad)
    /\ epc' = "done"
    /\ UNCHANGED <<image, imageRequiresGrad, imageGrad, paramsRequireGrad,
                   lossGrad, modeBefore, paramsBefore, pgdVars, convVars>>

ExplainNext ==
    \/ ExplainEnter
    \/ ExplainBackward
    \/ ExplainReturn

InitExplain == ExplainInit /\ PerturbIdle /\ ConvIdle
SpecExplain == InitExplain /\ [][ExplainNext]_vars

\* ---------------------------------------------------------- specifications
Init == PGDInit /\ ConvIdle /\ ExplainIdle
Next == PGDNext
Spec == Init /\ [][Next]_vars

InitConv == ConvInit /\ PGDIdle /\ ExplainIdle
SpecConv == InitConv /\ [][ConvNext]_vars

\* ------------------------------------------------------------------ claims
InLoop == pc \in {"loop", "loss", "grad", "step"}

\* C1: with epsilon >= 0, after every iteration of perturb's loop, and for
\* the returned tensor, every element of the candidate lies within epsilon
\* of the corresponding input element.
C1_BoxConstraint ==
    epsilon >= 0 =>
        /\ output # <<>> =>
              \A k \in Elems : /\ input[k] - epsilon <= output[k]
                               /\ output[k] <= input[k] + epsilon
        /\ returned # <<>> =>
              \A k \in Elems : Abs(returned[k] - input[k]) <= epsilon

C1_Witness ==
    /\ pc = "done"
    /\ epsilon = 1
    /\ stepSize > 0
    /\ i = numSteps
    /\ numSteps >= 2
    /\ \E k \in Elems : returned[k] = input[k] - epsilon
    /\ \E k \in Elems : returned[k] = input[k] + epsilon

\* C2: when perturb returns normally the model's mode flag equals the flag
\* it had at the call; while the loop runs the flag is evaluation (FALSE).
C2_ModeRestored ==
    /\ pc = "done" => training = modeAtCall
    /\ InLoop => training = FALSE

C2_Witness ==
    /\ pc = "done"
    /\ modeAtCall = TRUE
    /\ training = TRUE
    /\ numSteps >= 1
    /\ nForward = numSteps

\* C3: if the forward evaluation, the loss or the gradient computation
\* fails while the model was originally in training mode, the model is back
\* in training mode when perturb exits.
C3_ModeRestoredOnFailure ==
    (pc = "failed" /\ modeAtCall = TRUE) => training = TRUE

\* C4: with num_steps = 0 perturb performs no forward evaluation and no
\* gradient computation and returns a tensor equal, element by element, to
\* the input, for any epsilon and step_size.
C4_ZeroStepsIdentity ==
    numSteps = 0 =>
        /\ nForward = 0
        /\ nGrad = 0
        /\ pc # "failed"
        /\ pc = "done" =>
              /\ DOMAIN returned = DOMAIN input
              /\ \A k \in Elems : returned[k] = input[k]

C4_Witness ==
    /\ pc = "done"
    /\ numSteps = 0
    /\ epsilon < 0
    /\ stepSize # 0
    /\ returned = input

\* the perturb call has not ended
PerturbRunning == pc \in {"idle", "loop", "loss", "grad", "step"}

\* C12: while perturb runs, the model's forward is only ever called with the
\* model in evaluation mode, so a model whose training-mode forward attacks
\* its own input (attack set) never starts a nested perturb: at most one
\* perturb call is on the stack, none is suspended, and the call takes a step
\* as long as it runs and ends after exactly num_steps iterations.
C12_NoNestedPerturb ==
    /\ forwardModes \subseteq {FALSE}
    /\ depth <= 1
    /\ stack = <<>>
    /\ i <= numSteps
    /\ nForward <= numSteps
    /\ PerturbRunning => ENABLED PGDNext
    /\ pc = "done" => (depth = 0 /\ i = numSteps /\ nForward = numSteps)

C12_Witness ==
    /\ pc = "done"
    /\ attack
    /\ modeAtCall
    /\ numSteps >= 2
    /\ nForward = numSteps
    /\ forwardModes = {FALSE}

\* C13: in every iteration the forward pass is fed the current candidate,
\* which is the clone of the input in iteration 0 and the previous
\* iteration's clamped output afterwards; the logits are the model's logits
\* on that candidate, and the label handed to the loss is the first class
\* with the least of these logits, not the label of iteration 0.
C13_LabelFromCurrentCandidate ==
    /\ pc \in {"loss", "grad", "step"} =>
          /\ fedInput = output
          /\ fedInput = (IF i = 0 THEN input ELSE lastClamped)
          /\ logits = [c \in 1..Len(modelW) |->
                          SumF([k \in 0..(Len(output) - 1) |->
                                   modelW[c][k + 1] * output[k + 1]], Len(output))]
    /\ pc \in {"grad", "step"} =>
          /\ pred \in 0..(Len(logits) - 1)
          /\ \A d \in 0..(Len(logits) - 1) : logits[pred + 1] <= logits[d + 1]
          /\ \A d \in 0..(pred - 1) : logits[d + 1] > logits[pred + 1]

C13_Witness ==
    /\ pc = "grad"
    /\ i >= 1
    /\ pred # label0
    /\ output # input
    /\ fedInput = lastClamped

\* C14: the candidate before the clamp is the previous candidate minus
\* step_size times the sign of the gradient, element by element, with
\* sign(0) = 0; an element whose gradient is zero is not moved by the step
\* and, when epsilon >= 0, has its previous value after the clamp too; the
\* step cannot fail.
C14_SignedStep ==
    /\ pc = "step" => ENABLED IterStep
    /\ (pc \in {"loop", "done"} /\ i >= 1) =>
          \A k \in Elems :
              /\ unclamped[k] = prevOutput[k] - stepSize *
                     (IF gradients[k] > 0 THEN 1 ELSE IF gradients[k] < 0 THEN -1 ELSE 0)
              /\ gradients[k] = 0 =>
                    /\ unclamped[k] = prevOutput[k]
                    /\ epsilon >= 0 => output[k] = prevOutput[k]

C14_Witness ==
    /\ pc = "loop"
    /\ i >= 2
    /\ epsilon >= 0
    /\ stepSize # 0
    /\ \E k \in Elems : gradients[k] = 0 /\ prevOutput[k] # input[k]
    /\ \E k \in Elems : gradients[k] # 0 /\ output[k] # prevOutput[k]

\* ---------------------------------------------- claims on the convolution
\* element (a, b, c, d) of a 4-D tensor, 0-based
At4(t, a, b, c, d) ==
    t.data[((a * t.shape[2] + b) * t.shape[3] + c) * t.shape[4] + d + 1]

ArgN == x.shape[1]
ArgCi == x.shape[2]
ArgH == x.shape[3]
ArgW == x.shape[4]
ArgCo == weight.shape[1]
ArgK == weight.shape[3]

\* the arguments break a precondition of forward
ArgsInvalid ==
    \/ weight.shape[3] # weight.shape[4]
    \/ x.shape[2] # weight.shape[2]
    \/ ~stride.isInt \/ stride.val <= 0
    \/ ~padding.isInt \/ padding.val < 0
    \/ weight.shape[3] > x.shape[3] + 2 * padding.val
    \/ weight.shape[3] > x.shape[4] + 2 * padding.val

\* forward has just returned or raised
ForwardRan == cpc \in {"forwarded", "failed"}

ExpectedHo == ((ArgH + 2 * padding.val - ArgK) \div stride.val) + 1
ExpectedWo == ((ArgW + 2 * padding.val - ArgK) \div stride.val) + 1

\* C5: for valid arguments forward returns an output of shape
\* (N, C_o, floor((H+2p-K)/s)+1, floor((W+2p-K)/s)+1), the width being the
\* one the final view infers, also when H # W.
C5_OutputShape ==
    (ForwardRan /\ ~ArgsInvalid) =>
        /\ cpc # "failed"
        /\ convOut.shape = <<ArgN, ArgCo, ExpectedHo, ExpectedWo>>
        /\ Len(convOut.data) = ArgN * ArgCo * ExpectedHo * ExpectedWo

C5_Witness ==
    /\ cpc = "forwarded"
    /\ ArgH # ArgW
    /\ ArgN = 2
    /\ padding.val = 1
    /\ ArgK = 2
    /\ convOut.shape[3] # convOut.shape[4]
    /\ convOut.shape[3] > 1
    /\ convOut.shape[4] > 1

\* the zero-padded input read at padded coordinates (r, c)
PaddedInput(n, ci, r, c) ==
    LET h == r - padding.val
        w == c - padding.val
    IN  IF h >= 0 /\ h < ArgH /\ w >= 0 /\ w < ArgW THEN At4(x, n, ci, h, w) ELSE 0

\* the naive reference convolution: loops over (c_i, u, v)
NaiveConv(n, co, oi, oj) ==
    SumF([ci \in 0..(ArgCi - 1) |->
        SumF([u \in 0..(ArgK - 1) |->
            SumF([v \in 0..(ArgK - 1) |->
                    At4(weight, co, ci, u, v)
                    * PaddedInput(n, ci, oi * stride.val + u, oj * stride.val + v)],
                 ArgK)],
             ArgK)],
         ArgCi)
    + (IF bias # NoTensor THEN bias.data[co + 1] ELSE 0)

\* C6: every element of forward's output equals the naive reference sum
\* over (c_i, u, v) of weight * zero-padded input, plus bias[c_o] when a
\* bias is given.
C6_MatchesNaiveConv ==
    (ForwardRan /\ ~ArgsInvalid) =>
        /\ cpc # "failed"
        /\ \A n \in 0..(ArgN - 1), co \in 0..(ArgCo - 1),
              oi \in 0..(ExpectedHo - 1), oj \in 0..(ExpectedWo - 1) :
              convOut.data[((n * ArgCo + co) * ExpectedHo + oi) * ExpectedWo + oj + 1]
                  = NaiveConv(n, co, oi, oj)

C6_Witness ==
    /\ cpc = "forwarded"
    /\ bias # NoTensor
    /\ \E k \in DOMAIN bias.data : bias.data[k] # 0
    /\ padding.val > 0
    /\ stride.val > 1
    /\ ArgK = 2
    /\ ArgN = 2
    /\ ArgCi = 2
    /\ ArgCo = 2
    /\ ArgH # ArgW
    /\ ExpectedHo * ExpectedWo >= 4
    /\ \E k \in DOMAIN convOut.data : convOut.data[k] # 0

\* number of receptive fields that cover image position (h, w)
Multiplicity(h, w) ==
    Cardinality({pos \in (0..(ExpectedHo - 1)) \X (0..(ExpectedWo - 1)) :
        /\ pos[1] * stride.val - padding.val <= h
        /\ h <= pos[1] * stride.val - padding.val + ArgK - 1
        /\ pos[2] * stride.val - padding.val <= w
        /\ w <= pos[2] * stride.val - padding.val + ArgK - 1})

Positions == (0..(ArgN - 1)) \X (0..(ArgCi - 1)) \X (0..(ArgH - 1)) \X (0..(ArgW - 1))

\* C7 as stated: fold(unfold(X)) equals X exactly whenever
\* stride >= kernel_size; otherwise each element is X's element times the
\* number of receptive fields covering its position.
C7_AsStated ==
    cpc = "folded" =>
        IF stride.val >= ArgK
        THEN folded = x
        ELSE /\ folded.shape = x.shape
             /\ \A q \in Positions :
                   At4(folded, q[1], q[2], q[3], q[4])
                       = At4(x, q[1], q[2], q[3], q[4]) * Multiplicity(q[3], q[4])

\* C7 (amended): for every valid kernel size, stride and padding each
\* element of fold(unfold(X)) equals X's element times the number of
\* receptive fields covering its position; with stride >= kernel_size that
\* number is 1 or 0, so the element is X's where a window covers the
\* position and 0 where none does.
C7_FoldUnfoldMultiplicity ==
    cpc = "folded" =>
        /\ folded.shape = x.shape
        /\ \A q \in Positions :
              /\ At4(folded, q[1], q[2], q[3], q[4])
                     = At4(x, q[1], q[2], q[3], q[4]) * Multiplicity(q[3], q[4])
              /\ stride.val >= ArgK =>
                    /\ Multiplicity(q[3], q[4]) \in {0, 1}
                    /\ At4(folded, q[1], q[2], q[3], q[4])
                           = IF Multiplicity(q[3], q[4]) = 1
                             THEN At4(x, q[1], q[2], q[3], q[4]) ELSE 0

C7_Witness ==
    /\ cpc = "folded"
    /\ stride.val < ArgK
    /\ ArgN = 2
    /\ ArgCi = 2
    /\ \E q \in Positions :
          /\ Multiplicity(q[3], q[4]) = 4
          /\ At4(x, q[1], q[2], q[3], q[4]) # 0
          /\ At4(folded, q[1], q[2], q[3], q[4]) = 4 * At4(x, q[1], q[2], q[3], q[4])

\* C8: forward called with a non-square kernel, a channel mismatch, a
\* stride that is not a positive integer, a padding that is not a
\* non-negative integer, or a kernel larger than the padded input fails: it
\* returns no output and saves no tensors for backward.
C8_InvalidArgsFail ==
    (cpc # "init" /\ ArgsInvalid) =>
        /\ cpc = "failed"
        /\ convOut = NoTensor
        /\ ctx.saved = <<>>
        /\ grads = <<>>
        /\ folded = NoTensor

C8_Witness ==
    /\ cpc = "failed"
    /\ weight.shape[3] = weight.shape[4]
    /\ x.shape[2] = weight.shape[2]
    /\ stride.isInt /\ stride.val > 0
    /\ padding.isInt /\ padding.val >= 0
    /\ ArgK <= ArgH + 2 * padding.val
    /\ ArgK > ArgW + 2 * padding.val
    /\ convOut = NoTensor
    /\ ctx.saved = <<>>

\* C10: backward computes the input, weight and bias gradients only if the
\* matching needs-grad flag is set and returns None otherwise; the bias
\* gradient is None whenever forward had no bias, whatever its flag; the
\* stride and padding slots are always None.
C10_GradientsOnlyWhenNeeded ==
    cpc = "backwarded" =>
        /\ Len(grads) = 5
        /\ (grads[1] # NoTensor) <=> needs[1]
        /\ ("input" \in computed) <=> needs[1]
        /\ (grads[2] # NoTensor) <=> needs[2]
        /\ ("weight" \in computed) <=> needs[2]
        /\ (grads[3] # NoTensor) <=> (needs[3] /\ bias # NoTensor)
        /\ ("bias" \in computed) <=> (needs[3] /\ bias # NoTensor)
        /\ grads[4] = NoTensor
        /\ grads[5] = NoTensor

C10_Witness ==
    /\ cpc = "backwarded"
    /\ bias = NoTensor
    /\ needs = <<FALSE, TRUE, TRUE>>
    /\ grads[1] = NoTensor
    /\ grads[2] # NoTensor
    /\ grads[3] = NoTensor

\* forward's output without the bias term: the output minus the broadcast
\* bias (0-based flat offset k into the (N, C_o, H_o, W_o) output)
BiasFreeOutput(k) ==
    convOut.data[k + 1]
    - (IF bias # NoTensor
       THEN bias.data[((k \div (ExpectedHo * ExpectedWo)) % ArgCo) + 1]
       ELSE 0)

\* sum over all elements of (bias-free forward output) * grad_output
OutputDotGrad ==
    SumF([k \in 0..(Len(convOut.data) - 1) |-> BiasFreeOutput(k) * gradOutput.data[k + 1]],
         Len(convOut.data))

\* sum over all elements of x * grad_input
InputDotGrad ==
    SumF([k \in 0..(Len(x.data) - 1) |-> x.data[k + 1] * grads[1].data[k + 1]],
         Len(x.data))

AllOnes(t) == \A k \in DOMAIN t.data : t.data[k] = 1

\* sum of the weights (over c_o and the kernel offsets (u, v)) whose
\* receptive-field offset covers (h, w), for stride 1 and padding 0
CoveringWeightSum(ci, h, w) ==
    SumF([co \in 0..(ArgCo - 1) |->
        SumF([j \in 0..(ArgK * ArgK - 1) |->
                LET u == j \div ArgK
                    v == j % ArgK
                IN  IF /\ h - u >= 0 /\ h - u <= ExpectedHo - 1
                       /\ w - v >= 0 /\ w - v <= ExpectedWo - 1
                    THEN At4(weight, co, ci, u, v)
                    ELSE 0],
             ArgK * ArgK)],
         ArgCo)

\* C11: the input gradient has the shape (N, C_i, H, W) of the forward
\* input and is the transpose of the bias-free forward: the sum of
\* forward(X) * G equals the sum of X * grad_input(G); with G all ones,
\* stride 1 and padding 0, grad_input[n, c_i, h, w] is the sum of the
\* weights whose receptive-field offset covers (h, w).
C11_GradInputIsTranspose ==
    (cpc = "backwarded" /\ needs[1]) =>
        /\ grads[1].shape = <<ArgN, ArgCi, ArgH, ArgW>>
        /\ Len(grads[1].data) = ArgN * ArgCi * ArgH * ArgW
        /\ OutputDotGrad = InputDotGrad
        /\ (AllOnes(gradOutput) /\ stride.val = 1 /\ padding.val = 0) =>
              \A q \in Positions :
                  At4(grads[1], q[1], q[2], q[3], q[4])
                      = CoveringWeightSum(q[2], q[3], q[4])

C11_Witness ==
    /\ cpc = "backwarded"
    /\ needs[1]
    /\ AllOnes(gradOutput)
    /\ stride.val = 1
    /\ padding.val = 0
    /\ ArgK = 2
    /\ ArgN = 2
    /\ ArgCi = 2
    /\ ArgH = 3
    /\ ArgW = 2
    /\ bias # NoTensor
    /\ InputDotGrad # 0
    /\ \E q \in Positions : At4(grads[1], q[1], q[2], q[3], q[4]) # 0


\* --------------------------------------------------- claims on the saliency
\* C9: on an input of shape (N, C, H, W) explain returns a map of shape
\* (N, 1, H, W) whose element (n, 0, h, w) is the maximum over the channels
\* c of |gradient of the loss at (n, c, h, w)|; every value is >= 0.
C9_SaliencyIsChannelMaxAbs ==
    epc = "done" =>
        /\ saliency.shape = <<image.shape[1], 1, image.shape[3], image.shape[4]>>
        /\ Len(saliency.data) = image.shape[1] * image.shape[3] * image.shape[4]
        /\ \A n \in 0..(image.shape[1] - 1), h \in 0..(image.shape[3] - 1),
              w \in 0..(image.shape[4] - 1) :
              LET v == At4(saliency, n, 0, h, w)
                  mags == {Abs(At4(lossGrad, n, c, h, w)) : c \in 0..(image.shape[2] - 1)}
              IN  /\ v \in mags
                  /\ \A m \in mags : m <= v
                  /\ v >= 0

C9_Witness ==
    /\ epc = "done"
    /\ image.shape[1] = 2
    /\ image.shape[2] = 3
    /\ image.shape[3] # image.shape[4]
    /\ \E k \in DOMAIN lossGrad.data : lossGrad.data[k] < 0
    /\ \E n \in 0..1, h \in 0..(image.shape[3] - 1), w \in 0..(image.shape[4] - 1) :
          /\ At4(saliency, n, 0, h, w) = -At4(lossGrad, n, 1, h, w)
          /\ At4(saliency, n, 0, h, w) > Abs(At4(lossGrad, n, 0, h, w))
          /\ At4(saliency, n, 0, h, w) > Abs(At4(lossGrad, n, 2, h, w))

\* C15: explain restores nothing: when it has returned, the model is in
\* evaluation mode and no parameter requires a gradient, whatever the mode
\* and the flags were when it was called.
C15_ExplainLeavesEvalAndFrozen ==
    epc = "done" =>
        /\ training = FALSE
        /\ DOMAIN paramsRequireGrad = DOMAIN paramsBefore
        /\ \A k \in DOMAIN paramsRequireGrad : paramsRequireGrad[k] = FALSE

C15_Witness ==
    /\ epc = "done"
    /\ modeBefore
    /\ Len(paramsBefore) >= 2
    /\ \A k \in DOMAIN paramsBefore : paramsBefore[k]
    /\ training # modeBefore
    /\ paramsRequireGrad # paramsBefore
    /\ saliency # NoTensor

====
